---------------------------- MODULE Spec2Model ----------------------------
(***************************************************************************)
(* Model of auspice/server/sources.js: the Source / Dataset classes, the   *)
(* registry Map exported by the module, and the calls the classes make to  *)
(* the S3 client.  src/exceptions.js (NoResourcePathError) is modelled by  *)
(* the fact that sources.js never imports it nor throws it.                *)
(*                                                                         *)
(* JavaScript strings that the code concatenates, splits or tests are      *)
(* sequences of one-character strings, so that join, split, endsWith and   *)
(* the regular expression are computed character by character.  String    *)
(* literals of the source are TLA+ strings; Chars gives their characters.  *)
(***************************************************************************)
EXTENDS Naturals, Sequences, FiniteSets, TLC

VARIABLES registry, datasets, bucket, last

vars == <<registry, datasets, bucket, last>>

---------------------------------------------------------------------------
(* Bounds of the model. *)

\* characters a caller-supplied path part or a bucket key stem is made of
Alphabet == {"a", "_"}

\* the path parts of a community request: the strings of up to two of the
\* characters "a" and ".", among them the dot segments "." and ".." that URL
\* resolution treats specially
CommunityParts ==
  {<<>>, <<"a">>, <<".">>, <<"a", "a">>, <<"a", ".">>, <<".", "a">>, <<".", ".">>}

\* the path part of the requests of Spec, under which no claim depends on
\* what the parts are made of
PlainParts == {<<"a">>}

\* Spec: number of path parts, Dataset objects alive
MaxParts == 1
MaxDatasets == 1

\* SpecListing: length of a key's stem, number of keys the bucket lists
MaxStemLen == 2
MaxKeys == 2

\* SpecInverse: length of a path part, number of path parts, keys listed
MaxInvPartLen == 1
MaxInvParts == 2
MaxBucket == 2

\* SpecCommunity: number of path parts
MaxCommParts == 3

---------------------------------------------------------------------------
(* Characters of the string literals of sources.js. *)

Chars(s) ==
  ( "live" :> <<"l", "i", "v", "e">>
 @@ "staging" :> <<"s", "t", "a", "g", "i", "n", "g">>
 @@ "community" :> <<"c", "o", "m", "m", "u", "n", "i", "t", "y">>
 @@ "inrb-drc" :> <<"i", "n", "r", "b", "-", "d", "r", "c">>
 @@ "undefined" :> <<"u", "n", "d", "e", "f", "i", "n", "e", "d">>
 @@ "tree" :> <<"t", "r", "e", "e">>
 @@ "meta" :> <<"m", "e", "t", "a">>
 @@ ".json" :> <<".", "j", "s", "o", "n">>
 @@ "_tree.json" :> <<"_", "t", "r", "e", "e", ".", "j", "s", "o", "n">>
 @@ "_meta.json" :> <<"_", "m", "e", "t", "a", ".", "j", "s", "o", "n">>
 @@ "tree.json" :> <<"t", "r", "e", "e", ".", "j", "s", "o", "n">>
 @@ "http://data.nextstrain.org/" :>
      <<"h", "t", "t", "p", ":", "/", "/", "d", "a", "t", "a", ".", "n", "e",
        "x", "t", "s", "t", "r", "a", "i", "n", ".", "o", "r", "g", "/">>
 @@ "http://staging.nextstrain.org/" :>
      <<"h", "t", "t", "p", ":", "/", "/", "s", "t", "a", "g", "i", "n", "g",
        ".", "n", "e", "x", "t", "s", "t", "r", "a", "i", "n", ".", "o", "r",
        "g", "/">>
 @@ "https://raw.githubusercontent.com/" :>
      <<"h", "t", "t", "p", "s", ":", "/", "/", "r", "a", "w", ".", "g", "i",
        "t", "h", "u", "b", "u", "s", "e", "r", "c", "o", "n", "t", "e", "n",
        "t", ".", "c", "o", "m", "/">>
 @@ "/master/auspice/" :>
      <<"/", "m", "a", "s", "t", "e", "r", "/", "a", "u", "s", "p", "i", "c",
        "e", "/">> )[s]

---------------------------------------------------------------------------
(* JavaScript built-ins used by sources.js. *)

SeqsUpTo(S, n) == UNION {[1..k -> S] : k \in 0..n}

\* Array.prototype.join(sep) on an array of strings
RECURSIVE Join(_, _)
Join(parts, sep) ==
  IF parts = <<>> THEN <<>>
  ELSE IF Len(parts) = 1 THEN parts[1]
  ELSE parts[1] \o sep \o Join(Tail(parts), sep)

\* String.prototype.split(sep) for a one-character separator: scans the
\* string, closing a piece at every separator ("" splits into [""])
RECURSIVE SplitFrom(_, _, _)
SplitFrom(str, sep, piece) ==
  IF str = <<>> THEN <<piece>>
  ELSE IF Head(str) = sep THEN <<piece>> \o SplitFrom(Tail(str), sep, <<>>)
  ELSE SplitFrom(Tail(str), sep, Append(piece, Head(str)))

Split(str, sep) == SplitFrom(str, sep, <<>>)

\* String.prototype.endsWith(suffix)
EndsWith(str, suffix) ==
  /\ Len(str) >= Len(suffix)
  /\ SubSeq(str, Len(str) - Len(suffix) + 1, Len(str)) = suffix

\* Array.prototype.slice(from) (0-based from): a copy of the tail
Slice(arr, from) == SubSeq(arr, from + 1, Len(arr))

\* the template literal ${arr[i]} (0-based i): the element, or "undefined"
Interpolate(arr, i) == IF i + 1 <= Len(arr) THEN arr[i + 1] ELSE Chars("undefined")

\* the positions of "/" in a string
Slashes(str) == {i \in 1..Len(str) : str[i] = "/"}

\* index of the last "/" of a string, 0 when there is none
LastSlash(str) ==
  IF Slashes(str) = {} THEN 0
  ELSE CHOOSE i \in Slashes(str) : \A j \in Slashes(str) : j <= i

\* index of the "/" that starts the path of "scheme://host/path"
PathStart(url) ==
  CHOOSE i \in Slashes(url) : Cardinality({j \in Slashes(url) : j < i}) = 2

\* the URL parser's walk over path segments: "." is dropped, ".." drops the
\* segment before it (none at the root), any other segment is kept
RECURSIVE RemoveDotSegments(_, _)
RemoveDotSegments(segs, kept) ==
  IF segs = <<>> THEN kept
  ELSE IF Head(segs) = <<".">> THEN RemoveDotSegments(Tail(segs), kept)
  ELSE IF Head(segs) = <<".", ".">>
       THEN RemoveDotSegments(Tail(segs),
                              IF kept = <<>> THEN kept ELSE SubSeq(kept, 1, Len(kept) - 1))
  ELSE RemoveDotSegments(Tail(segs), Append(kept, Head(segs)))

\* new URL(rel, base).toString(), for an http(s) base and a relative
\* reference made of characters the parser neither escapes nor treats as
\* delimiters, whose last segment is no dot segment: the reference replaces
\* what follows the last "/" of the base path, then dot segments are removed
ResolveUrl(rel, base) ==
  LET merged == SubSeq(base, PathStart(base) + 1, LastSlash(base)) \o rel
  IN SubSeq(base, 1, PathStart(base))
       \o Join(RemoveDotSegments(Split(merged, "/"), <<>>), <<"/">>)

\* how a call ends
Returned(v) == [status |-> "returned", value |-> v]
Threw(e) == [status |-> "threw", value |-> e]
Resolved(v) == [status |-> "resolved", value |-> v]
Rejected(e) == [status |-> "rejected", value |-> e]

---------------------------------------------------------------------------
(* The Source class hierarchy: which members each class declares itself.   *)

SourceMembers ==
  {"name", "baseUrl", "dataset", "visibleToUser", "availableDatasets",
   "availableNarratives"}

LiveSourceMembers == {"name", "baseUrl", "availableDatasets", "availableNarratives"}

StagingSourceMembers == {"name", "baseUrl", "availableDatasets", "availableNarratives"}

CommunitySourceMembers == {"name", "dataset"}

\* PrivateS3Source without its own visibleToUser
PrivateS3SourceMembersInheriting == {"dataset", "availableDatasets"}

PrivateS3SourceMembers == {"dataset", "visibleToUser", "availableDatasets"}

InrbDrcSourceMembers == {"name", "bucket", "visibleToUser"}

SourceClasses ==
  {"Source", "LiveSource", "StagingSource", "CommunitySource",
   "PrivateS3Source", "InrbDrcSource"}

\* the extends clauses
Parent(cls) ==
  CASE cls = "LiveSource" -> "Source"
    [] cls = "StagingSource" -> "Source"
    [] cls = "CommunitySource" -> "Source"
    [] cls = "PrivateS3Source" -> "Source"
    [] cls = "InrbDrcSource" -> "PrivateS3Source"

Members(cls) ==
  CASE cls = "Source" -> SourceMembers
    [] cls = "LiveSource" -> LiveSourceMembers
    [] cls = "StagingSource" -> StagingSourceMembers
    [] cls = "CommunitySource" -> CommunitySourceMembers
    [] cls = "PrivateS3Source" -> PrivateS3SourceMembers
    [] cls = "InrbDrcSource" -> InrbDrcSourceMembers

\* prototype-chain lookup: the nearest class, from cls upwards, that
\* declares the member; "none" when no class of the chain does
RECURSIVE Resolve(_, _)
Resolve(cls, member) ==
  IF member \in Members(cls) THEN cls
  ELSE IF cls = "Source" THEN "none"
  ELSE Resolve(Parent(cls), member)

\* the classes that extend PrivateS3Source, directly or not
RECURSIVE IsPrivateS3(_)
IsPrivateS3(cls) ==
  IF cls = "PrivateS3Source" THEN TRUE
  ELSE IF cls = "Source" THEN FALSE
  ELSE IsPrivateS3(Parent(cls))

\* the Map exported by the module: name -> instance (one instance per
\* class, so an instance is named by its class)
SourceMap ==
  ( "live" :> "LiveSource"
 @@ "staging" :> "StagingSource"
 @@ "community" :> "CommunitySource"
 @@ "inrb-drc" :> "InrbDrcSource" )

Registered == {SourceMap[n] : n \in DOMAIN SourceMap}

\* get name()
NameOf(cls) ==
  CASE Resolve(cls, "name") = "LiveSource" -> "live"
    [] Resolve(cls, "name") = "StagingSource" -> "staging"
    [] Resolve(cls, "name") = "CommunitySource" -> "community"
    [] Resolve(cls, "name") = "InrbDrcSource" -> "inrb-drc"

\* get baseUrl()
BaseUrlOf(cls) ==
  CASE Resolve(cls, "baseUrl") = "LiveSource" -> "http://data.nextstrain.org/"
    [] Resolve(cls, "baseUrl") = "StagingSource" -> "http://staging.nextstrain.org/"

\* get bucket()
BucketOf(cls) ==
  CASE Resolve(cls, "bucket") = "InrbDrcSource" -> "nextstrain-inrb"

---------------------------------------------------------------------------
(* visibleToUser *)

Groups == {"inrb", "inrb-drc", "other"}

\* the user argument: undefined, an object without groups, or an object
\* whose groups array holds the given groups
NoUser == [present |-> FALSE, hasGroups |-> FALSE, groups |-> {}]

Users ==
  {NoUser}
    \cup {[present |-> TRUE, hasGroups |-> FALSE, groups |-> {}]}
    \cup {[present |-> TRUE, hasGroups |-> TRUE, groups |-> g] : g \in SUBSET Groups}

MustImplementVisibleToUser ==
  "visibleToUser() must be implemented explicitly by subclasses (not inherited from Source)"

\* a check against the source's own name instead of the group "inrb"
InrbDrcVisibleToUserByName(user) ==
  user.present /\ user.hasGroups /\ "inrb-drc" \in user.groups

\* InrbDrcSource.visibleToUser: !!user && !!user.groups && user.groups.includes("inrb")
InrbDrcVisibleToUser(user) ==
  user.present /\ user.hasGroups /\ "inrb" \in user.groups

VisibleToUser(cls, user) ==
  CASE Resolve(cls, "visibleToUser") = "Source" -> Returned(TRUE)
    [] Resolve(cls, "visibleToUser") = "PrivateS3Source" -> Threw(MustImplementVisibleToUser)
    [] Resolve(cls, "visibleToUser") = "InrbDrcSource" -> Returned(InrbDrcVisibleToUser(user))

---------------------------------------------------------------------------
(* Dataset, CommunityDataset, PrivateS3Dataset *)

ResourceTypes == {"tree", "meta"}

\* the pathParts argument: undefined, or an array of strings
UndefinedParts == [defined |-> FALSE, parts |-> <<>>]

ArrayOf(parts) == [defined |-> TRUE, parts |-> parts]

PathPartsInputs(partSet, maxParts) ==
  {UndefinedParts} \cup {ArrayOf(p) : p \in SeqsUpTo(partSet, maxParts)}

\* Source.dataset, CommunitySource.dataset, PrivateS3Source.dataset: the
\* Dataset class each constructs
DatasetClass(cls) ==
  CASE Resolve(cls, "dataset") = "Source" -> "Dataset"
    [] Resolve(cls, "dataset") = "CommunitySource" -> "CommunityDataset"
    [] Resolve(cls, "dataset") = "PrivateS3Source" -> "PrivateS3Dataset"

\* the Dataset constructor: stores its two arguments, checks nothing
NewDataset(cls, pathParts) ==
  [cls |-> DatasetClass(cls), source |-> cls, pathParts |-> pathParts]

\* baseParts that keeps the owner for every Dataset class
BasePartsKeepingOwner(d) ==
  IF ~d.pathParts.defined THEN Threw("TypeError")
  ELSE Returned(Slice(d.pathParts.parts, 0))

\* get baseParts(): a TypeError when pathParts is undefined
BaseParts(d) ==
  IF ~d.pathParts.defined THEN Threw("TypeError")
  ELSE IF d.cls = "CommunityDataset" THEN Returned(Slice(d.pathParts.parts, 1))
  ELSE Returned(Slice(d.pathParts.parts, 0))

\* this.pathParts had baseParts used shift() to drop the first part
PathPartsAfterShift(d) == [d.pathParts EXCEPT !.parts = Slice(@, 1)]

\* this.pathParts once baseParts has run: slice() leaves its receiver as it was
PathPartsAfterBaseParts(d) == d.pathParts

\* baseNameFor(type)
BaseNameFor(d, type) ==
  IF BaseParts(d).status = "threw" THEN BaseParts(d)
  ELSE Returned(Join(BaseParts(d).value, <<"_">>) \o <<"_">> \o Chars(type) \o Chars(".json"))

\* Dataset.urlFor(type)
DatasetUrlFor(d, type) ==
  IF BaseNameFor(d, type).status = "threw" THEN BaseNameFor(d, type)
  ELSE Returned(ResolveUrl(BaseNameFor(d, type).value, Chars(BaseUrlOf(d.source))))

\* CommunityDataset.urlFor(type)
CommunityUrlFor(d, type) ==
  IF ~d.pathParts.defined THEN Threw("TypeError")
  ELSE LET repoBaseUrl ==
             Chars("https://raw.githubusercontent.com/")
               \o Interpolate(d.pathParts.parts, 0) \o <<"/">>
               \o Interpolate(d.pathParts.parts, 1) \o Chars("/master/auspice/")
       IN Returned(ResolveUrl(BaseNameFor(d, type).value, repoBaseUrl))

---------------------------------------------------------------------------
(* The S3 client (aws-sdk), as sources.js uses it. *)

\* the errors a failed S3 call is rejected with or throws: the client's own
\* error objects
S3Errors ==
  {[code |-> "NetworkingError", retryable |-> TRUE],
   [code |-> "AccessDenied", retryable |-> FALSE]}

\* what makes two signed URLs for one object differ
Signatures == {"sig1", "sig2"}

\* the request listObjectsV2 is called with
ListRequest(bkt) == [api |-> "listObjectsV2", verb |-> "", Bucket |-> bkt, Key |-> <<>>]

\* the request getSignedUrl is called with
SignRequest(bkt, key) == [api |-> "getSignedUrl", verb |-> "getObject", Bucket |-> bkt, Key |-> key]

\* listObjectsV2(...).promise(): resolved with the keys of list.Contents,
\* which are the keys the bucket holds, or rejected
S3ListOutcomes(keys) == {Resolved(keys)} \cup {Rejected(e) : e \in S3Errors}

\* getSignedUrl(...): the signed URL, or a thrown error
S3SignOutcomes(bkt, key) ==
  {Returned([bucket |-> bkt, key |-> key, signature |-> sg]) : sg \in Signatures}
    \cup {Threw(e) : e \in S3Errors}

---------------------------------------------------------------------------
(* availableDatasets, availableNarratives *)

\* a pattern without the leading underscore: /tree[.]json$/
StripTreeSuffixKeepingUnderscore(file) ==
  IF EndsWith(file, Chars("tree.json"))
  THEN SubSeq(file, 1, Len(file) - Len(Chars("tree.json")))
  ELSE file

\* file.replace(/_tree[.]json$/, ""): the match is anchored at the end
StripTreeSuffix(file) ==
  IF EndsWith(file, Chars("_tree.json"))
  THEN SubSeq(file, 1, Len(file) - Len(Chars("_tree.json")))
  ELSE file

\* the path a tree file stands for: strip, split on "_", join with "/"
PathOfFile(file) == Join(Split(StripTreeSuffix(file), "_"), <<"/">>)

\* a filter on "tree.json", without the leading underscore
TreeFilesAnyTree(keys) == SelectSeq(keys, LAMBDA file : EndsWith(file, Chars("tree.json")))

\* .filter(file => file.endsWith("_tree.json"))
RECURSIVE TreeFiles(_)
TreeFiles(keys) ==
  IF keys = <<>> THEN <<>>
  ELSE IF EndsWith(Head(keys), Chars("_tree.json"))
       THEN <<Head(keys)>> \o TreeFiles(Tail(keys))
       ELSE TreeFiles(Tail(keys))

\* the chain of map and filter calls of PrivateS3Source.availableDatasets
RequestsOf(cls, keys) ==
  [i \in 1..Len(TreeFiles(keys)) |->
     [request |-> Join(<<Chars(NameOf(cls)), PathOfFile(TreeFiles(keys)[i])>>, <<"/">>)]]

\* a listing that swallows the failure of the S3 call into an empty listing
PrivateAvailableDatasetsSwallowing(cls, resp) ==
  IF resp.status = "rejected" THEN Resolved(<<>>)
  ELSE Resolved(RequestsOf(cls, resp.value))

\* PrivateS3Source.availableDatasets once the awaited listObjectsV2 call has
\* answered resp: the async function rejects with what the call rejected
\* with, or resolves with the request descriptors
PrivateAvailableDatasets(cls, resp) ==
  IF resp.status = "rejected" THEN resp
  ELSE Resolved(RequestsOf(cls, resp.value))

\* global.availableDatasets / global.availableNarratives as a call finds it:
\* undefined, or an object that has no entry under the name the call reads,
\* or has under that name an array, empty or not
SampleListing == <<[request |-> Chars("live")]>>

Globals ==
  {[defined |-> FALSE, present |-> FALSE, list |-> <<>>],
   [defined |-> TRUE, present |-> FALSE, list |-> <<>>],
   [defined |-> TRUE, present |-> TRUE, list |-> <<>>],
   [defined |-> TRUE, present |-> TRUE, list |-> SampleListing]}

\* global.available...[this.name] || [], g being the global and its entry
\* under this.name
FromGlobal(cls, g) ==
  IF ~g.defined THEN Threw("TypeError")
  ELSE IF g.present THEN Returned(g.list)
  ELSE Returned(<<>>)

---------------------------------------------------------------------------
(* State: the exported Map, the Dataset objects alive, the keys the private  *)
(* bucket holds in the order S3 lists them, and the last call made to this  *)
(* module with how it ended and the S3 requests it made.                    *)

\* one call to the S3 client and what it answered
Exchange(req, resp) == [req |-> req, resp |-> resp]

Call(op, recv, arg, out, s3) == [op |-> op, recv |-> recv, arg |-> arg, out |-> out, s3 |-> s3]

Init ==
  /\ registry = SourceMap
  /\ datasets = <<>>
  /\ bucket = <<>>
  /\ last = Call("require", "module", <<>>, Returned("Map"), <<>>)

\* names a caller may look up: the registered ones and others
LookupNames == DOMAIN SourceMap \cup {"nextflu", "Live"}

\* a lookup that falls back to the live source for a name it does not know
MapGetWithFallback(map, key) == IF key \in DOMAIN map THEN map[key] ELSE map["live"]

\* Map.prototype.get(key): the value stored under the key, or undefined
MapGet(map, key) == IF key \in DOMAIN map THEN map[key] ELSE "undefined"

\* sources.get(name) on the exported Map
RegistryGet(name) ==
  /\ last' = Call("get", "registry", name, Returned(MapGet(registry, name)), <<>>)
  /\ UNCHANGED <<registry, datasets, bucket>>

\* the environment: someone uploads a file to the private bucket
PutObject(key, max) ==
  /\ Len(bucket) < max
  /\ \A i \in 1..Len(bucket) : bucket[i] # key
  /\ bucket' = Append(bucket, key)
  /\ UNCHANGED <<registry, datasets, last>>

\* source.dataset(pathParts), for one of the given pathParts, while fewer
\* than max Dataset objects are alive
DatasetCall(cls, inputs, max) ==
  /\ Len(datasets) < max
  /\ \E pathParts \in inputs :
       /\ datasets' = Append(datasets, NewDataset(cls, pathParts))
       /\ last' = Call("dataset", cls, pathParts, Returned(Len(datasets) + 1), <<>>)
  /\ UNCHANGED <<registry, bucket>>

\* dataset.baseNameFor(type)
BaseNameForCall(i, type) ==
  /\ i \in 1..Len(datasets)
  /\ datasets' = [datasets EXCEPT ![i].pathParts = PathPartsAfterBaseParts(datasets[i])]
  /\ last' = Call("baseNameFor", i, type, BaseNameFor(datasets[i], type), <<>>)
  /\ UNCHANGED <<registry, bucket>>

\* dataset.urlFor(type): Dataset.urlFor, CommunityDataset.urlFor or
\* PrivateS3Dataset.urlFor, which evaluates this.baseNameFor(type) and then
\* calls S3.getSignedUrl once
UrlForCall(i, type) ==
  /\ i \in 1..Len(datasets)
  /\ LET d == datasets[i]
     IN /\ datasets' = [datasets EXCEPT ![i].pathParts =
                          IF d.cls = "CommunityDataset" /\ ~d.pathParts.defined
                          THEN d.pathParts ELSE PathPartsAfterBaseParts(d)]
        /\ IF d.cls = "Dataset"
           THEN last' = Call("urlFor", i, type, DatasetUrlFor(d, type), <<>>)
           ELSE IF d.cls = "CommunityDataset"
           THEN last' = Call("urlFor", i, type, CommunityUrlFor(d, type), <<>>)
           ELSE IF BaseNameFor(d, type).status = "threw"
           THEN last' = Call("urlFor", i, type, BaseNameFor(d, type), <<>>)
           ELSE \E out \in S3SignOutcomes(BucketOf(d.source), BaseNameFor(d, type).value) :
                  last' = Call("urlFor", i, type, out,
                               <<Exchange(SignRequest(BucketOf(d.source), BaseNameFor(d, type).value), out)>>)
  /\ UNCHANGED <<registry, bucket>>

\* visibleToUser(user) on an instance of class cls: a registered instance, or
\* an instance of a class that declares no visibleToUser below cls
VisibleToUserCall(cls, user) ==
  /\ last' = Call("visibleToUser", cls, user, VisibleToUser(cls, user), <<>>)
  /\ UNCHANGED <<registry, datasets, bucket>>

\* source.availableDatasets(): Source's, LiveSource's / StagingSource's, or
\* PrivateS3Source's, an async function that awaits one listObjectsV2 call
AvailableDatasetsCall(cls) ==
  /\ IF Resolve(cls, "availableDatasets") = "Source"
     THEN last' = Call("availableDatasets", cls, <<>>, Returned(<<>>), <<>>)
     ELSE IF Resolve(cls, "availableDatasets") = "PrivateS3Source"
     THEN \E resp \in S3ListOutcomes(bucket) :
            last' = Call("availableDatasets", cls, <<>>, PrivateAvailableDatasets(cls, resp),
                         <<Exchange(ListRequest(BucketOf(cls)), resp)>>)
     ELSE \E g \in Globals :
            last' = Call("availableDatasets", cls, <<>>, FromGlobal(cls, g), <<>>)
  /\ UNCHANGED <<registry, datasets, bucket>>

\* source.availableNarratives(): Source's, or LiveSource's / StagingSource's
AvailableNarrativesCall(cls) ==
  /\ IF Resolve(cls, "availableNarratives") = "Source"
     THEN last' = Call("availableNarratives", cls, <<>>, Returned(<<>>), <<>>)
     ELSE \E g \in Globals :
            last' = Call("availableNarratives", cls, <<>>, FromGlobal(cls, g), <<>>)
  /\ UNCHANGED <<registry, datasets, bucket>>

---------------------------------------------------------------------------
(* Bucket keys: a stem followed by one of the endings files have. *)

Endings == {Chars("_tree.json"), Chars("_meta.json"), Chars("tree.json")}

Keys(maxStem) == {st \o e : st \in SeqsUpTo(Alphabet, maxStem), e \in Endings}

---------------------------------------------------------------------------
(* Spec: every operation of the module, in any order. *)

OtherKey == <<"a">> \o Chars("_tree.json")

Next ==
  \/ \E name \in LookupNames : RegistryGet(name)
  \/ \E cls \in Registered :
       DatasetCall(cls, PathPartsInputs(PlainParts, MaxParts), MaxDatasets)
  \/ \E i \in 1..Len(datasets), type \in ResourceTypes : BaseNameForCall(i, type)
  \/ \E i \in 1..Len(datasets), type \in ResourceTypes : UrlForCall(i, type)
  \/ \E cls \in SourceClasses, user \in Users : VisibleToUserCall(cls, user)
  \/ \E cls \in Registered : AvailableDatasetsCall(cls)
  \/ \E cls \in Registered : AvailableNarrativesCall(cls)
  \/ PutObject(OtherKey, 1)

Spec == Init /\ [][Next]_vars

(* SpecListing: PrivateS3Source.availableDatasets on a bucket of up to      *)
(* MaxKeys files.                                                           *)

NextListing ==
  \/ \E key \in Keys(MaxStemLen) : PutObject(key, MaxKeys)
  \/ AvailableDatasetsCall("InrbDrcSource")

SpecListing == Init /\ [][NextListing]_vars

(* SpecInverse: one Dataset of the private source, its base names, and the  *)
(* listing of a bucket that holds files of that Dataset and another file.   *)

BucketKeys ==
  {OtherKey} \cup
    UNION {IF BaseNameFor(datasets[i], "tree").status = "returned"
           THEN {BaseNameFor(datasets[i], t).value : t \in ResourceTypes}
           ELSE {} : i \in 1..Len(datasets)}

NextInverse ==
  \/ DatasetCall("InrbDrcSource", PathPartsInputs(SeqsUpTo(Alphabet, MaxInvPartLen), MaxInvParts), 1)
  \/ \E type \in ResourceTypes : BaseNameForCall(1, type)
  \/ \E key \in BucketKeys : PutObject(key, MaxBucket)
  \/ AvailableDatasetsCall("InrbDrcSource")

SpecInverse == Init /\ [][NextInverse]_vars

(* SpecCommunity: one Dataset of the community source, its base names and   *)
(* its URLs.                                                                *)

NextCommunity ==
  \/ DatasetCall("CommunitySource",
                 PathPartsInputs(CommunityParts, MaxCommParts), 1)
  \/ \E type \in ResourceTypes : BaseNameForCall(1, type)
  \/ \E type \in ResourceTypes : UrlForCall(1, type)

SpecCommunity == Init /\ [][NextCommunity]_vars

---------------------------------------------------------------------------
(* Properties.  The last call and how it ended are in `last`; the Dataset   *)
(* a baseNameFor or urlFor call was made on is datasets[last.recv].         *)

\* the original statement of C1: visibleToUser of "inrb-drc" returns a
\* boolean without throwing, true exactly when the user is present, has
\* groups, and the groups hold the source's name
C1_VisibleIffNameInGroups ==
  (last.op = "visibleToUser" /\ last.recv = "InrbDrcSource")
    => /\ last.out.status = "returned"
       /\ last.out.value \in BOOLEAN
       /\ last.out.value <=> (/\ last.arg.present
                              /\ last.arg.hasGroups
                              /\ NameOf("InrbDrcSource") \in last.arg.groups)

\* C1, amended: for the source "inrb-drc", visibleToUser(user) returns a
\* boolean for every user (undefined, without groups, with any groups) and
\* never throws; it returns true exactly when the user is present, has
\* groups, and the groups hold "inrb" (the group, not the source's name)
C1_VisibleIffInrbGroup ==
  (last.op = "visibleToUser" /\ last.recv = "InrbDrcSource")
    => /\ last.out.status = "returned"
       /\ last.out.value \in BOOLEAN
       /\ last.out.value <=> (/\ last.arg.present
                              /\ last.arg.hasGroups
                              /\ "inrb" \in last.arg.groups)

\* an "inrb-drc" call that returned true for a member of "inrb" who is not
\* in a group named after the source
C1_Witness ==
  /\ last.op = "visibleToUser"
  /\ last.recv = "InrbDrcSource"
  /\ last.out = Returned(TRUE)
  /\ "inrb-drc" \notin last.arg.groups

\* a private-store class with a visibleToUser of its own, declared below
\* PrivateS3Source
OverridesVisibleToUser(cls) ==
  /\ IsPrivateS3(cls)
  /\ Resolve(cls, "visibleToUser") \notin {"Source", "PrivateS3Source"}

\* C5: visibleToUser on a private-store source without an override of its
\* own throws for every user and never returns true, and every
\* private-store source of the registry has its own override
C5_PrivateNeverDefaultsToPublic ==
  /\ (last.op = "visibleToUser" /\ IsPrivateS3(last.recv) /\ ~OverridesVisibleToUser(last.recv))
       => (last.out.status = "threw" /\ last.out # Returned(TRUE))
  /\ \A n \in DOMAIN registry :
       IsPrivateS3(registry[n]) => OverridesVisibleToUser(registry[n])

\* visibleToUser called on a bare PrivateS3Source, with a user who is in
\* every group, has thrown
C5_Witness ==
  /\ last.op = "visibleToUser"
  /\ last.recv = "PrivateS3Source"
  /\ last.arg.groups = Groups
  /\ last.out.status = "threw"

\* C6: a lookup never throws; for a registered name it returns that name's
\* Source instance, for any other name the value undefined, which is no
\* Source instance
C6_LookupReturnsSourceOrUndefined ==
  last.op = "get"
    => /\ last.out.status = "returned"
       /\ last.arg \in DOMAIN SourceMap => last.out.value = SourceMap[last.arg]
       /\ last.arg \notin DOMAIN SourceMap
            => (last.out.value = "undefined" /\ last.out.value \notin SourceClasses)

\* an unregistered name has been looked up
C6_Witness ==
  /\ last.op = "get"
  /\ last.arg = "nextflu"
  /\ last.out.status = "returned"

\* C7: dataset() without a dataset path (undefined or empty path parts)
\* raises NoResourcePathError and produces no Dataset; every Dataset has at
\* least one path segment
C7_NoDatasetWithoutPath ==
  /\ \A i \in 1..Len(datasets) :
       datasets[i].pathParts.defined /\ Len(datasets[i].pathParts.parts) >= 1
  /\ (last.op = "dataset" /\ (~last.arg.defined \/ last.arg.parts = <<>>))
       => last.out = Threw("NoResourcePathError")

\* the call has asked the S3 client for something and the client has failed
S3Failed == last.s3 # <<>> /\ last.s3[1].resp.status \in {"rejected", "threw"}

\* the original statement of C8: a failed S3 call is not retried and the
\* failure reaches the caller carrying the source name and the operation
C8_FailureCarriesContext ==
  S3Failed
    => /\ Len(last.s3) = 1
       /\ last.out.status \in {"rejected", "threw"}
       /\ {"source", "operation"} \subseteq DOMAIN last.out.value
       /\ last.out.value.source = NameOf("InrbDrcSource")
       /\ last.out.value.operation = last.op

\* C8, amended: a failed S3 call is not retried, and the operation fails
\* with the S3 client's own error, unchanged: availableDatasets rejects with
\* it, urlFor throws it; nothing (no source name, no operation) is added
C8_FailurePropagatedUnchanged ==
  S3Failed
    => /\ Len(last.s3) = 1
       /\ last.out = last.s3[1].resp
       /\ last.out.value \in S3Errors
       /\ last.op = "availableDatasets" => last.out.status = "rejected"
       /\ last.op = "urlFor" => last.out.status = "threw"

\* availableDatasets of the private source ended when its listing failed
C8_Witness ==
  /\ last.op = "availableDatasets"
  /\ last.recv = "InrbDrcSource"
  /\ S3Failed
  /\ last.s3[1].req.api = "listObjectsV2"

\* C9: every urlFor(type) on a private-store Dataset makes exactly one
\* signing request, for the source's bucket and the key baseNameFor(type)
\* (no URL is kept: each call asks the S3 client again)
C9_OneSigningRequestPerCall ==
  (last.op = "urlFor" /\ datasets[last.recv].cls = "PrivateS3Dataset")
    => /\ Len(last.s3) = 1
       /\ last.s3[1].req.api = "getSignedUrl"
       /\ last.s3[1].req.Bucket = BucketOf(datasets[last.recv].source)
       /\ BaseNameFor(datasets[last.recv], last.arg).status = "returned"
       /\ last.s3[1].req.Key = BaseNameFor(datasets[last.recv], last.arg).value

\* C10: no operation, failed or not, changes the registry or the path parts
\* (or the class or source) of a Dataset that exists; Datasets are only added
C10_Frame ==
  [][/\ registry' = registry
     /\ Len(datasets') >= Len(datasets)
     /\ \A i \in 1..Len(datasets) : datasets'[i] = datasets[i]]_vars

\* a urlFor call on an existing Dataset has failed
C10_Witness ==
  /\ Len(datasets) >= 1
  /\ last.op = "urlFor"
  /\ last.out.status = "threw"
  /\ registry = SourceMap

---------------------------------------------------------------------------
(* Properties of the community naming (SpecCommunity). *)

\* "_" before each of the parts, one after the other
RECURSIVE Underscored(_)
Underscored(parts) ==
  IF parts = <<>> THEN <<>> ELSE <<"_">> \o Head(parts) \o Underscored(Tail(parts))

\* repo and rest joined by underscores, then "_<type>.json"
ExpectedBaseName(parts, type) ==
  parts[2] \o Underscored(SubSeq(parts, 3, Len(parts))) \o <<"_">> \o Chars(type) \o Chars(".json")

\* https://<raw-content-host>/<owner>/<repo>/master/auspice/
ExpectedPrefix(parts) ==
  Chars("https://raw.githubusercontent.com/") \o parts[1] \o <<"/">> \o parts[2]
    \o Chars("/master/auspice/")

DotSegments == {<<".">>, <<".", ".">>}

\* the last call was made on a community Dataset with parts [owner, repo, ...rest]
OnCommunityDataset ==
  /\ last.op \in {"baseNameFor", "urlFor"}
  /\ datasets[last.recv].cls = "CommunityDataset"
  /\ datasets[last.recv].pathParts.defined
  /\ Len(datasets[last.recv].pathParts.parts) >= 2

---------------------------------------------------------------------------
(* Properties of the private-store listing (SpecListing, SpecInverse). *)

\* the positions of the keys that end in "_tree.json"
TreePositions(keys) == {i \in 1..Len(keys) : EndsWith(keys[i], Chars("_tree.json"))}

\* the k-th of these positions, in the order of the listing
NthTreePosition(keys, k) ==
  CHOOSE i \in TreePositions(keys) : Cardinality({j \in TreePositions(keys) : j <= i}) = k

\* the key without its last ten characters, every "_" replaced by "/"
SlashedStem(key) ==
  [j \in 1..(Len(key) - Len(Chars("_tree.json"))) |-> IF key[j] = "_" THEN "/" ELSE key[j]]

\* availableDatasets of the private source has resolved
ListingResolved ==
  /\ last.op = "availableDatasets"
  /\ IsPrivateS3(last.recv)
  /\ last.out.status = "resolved"

\* C3: the listing has exactly one descriptor per key ending in
\* "_tree.json", none for other keys, in the order of the storage listing,
\* each with request "<sourceName>/<key without suffix, "_" replaced by "/">"
C3_ListingOfTreeKeys ==
  ListingResolved
    => /\ Len(last.out.value) = Cardinality(TreePositions(last.s3[1].resp.value))
       /\ \A k \in 1..Len(last.out.value) :
            /\ DOMAIN last.out.value[k] = {"request"}
            /\ last.out.value[k].request =
                 Chars(NameOf(last.recv)) \o <<"/">>
                   \o SlashedStem(last.s3[1].resp.value[NthTreePosition(last.s3[1].resp.value, k)])

\* a listing of a tree file with an underscore in its stem and of a file
\* that is no tree file has resolved
C3_Witness ==
  /\ ListingResolved
  /\ Len(last.s3[1].resp.value) = 2
  /\ Len(last.out.value) = 1
  /\ last.s3[1].resp.value[2] = <<"a", "_">> \o Chars("_tree.json")
  /\ last.s3[1].resp.value = bucket

\* the path of a request: what follows "<sourceName>/"
PathOfRequest(cls, request) == SubSeq(request, Len(Chars(NameOf(cls))) + 2, Len(request))

\* the listing holds a request that gives back the path parts
Recovers(cls, listing, parts) ==
  \E k \in 1..Len(listing) :
    /\ listing[k].request = Chars(NameOf(cls)) \o <<"/">> \o Join(parts, <<"/">>)
    /\ Split(PathOfRequest(cls, listing[k].request), "/") = parts

\* the bucket that was listed holds the tree file of the one Dataset, which
\* has at least one path part
ListedBucketHoldsDataset ==
  /\ ListingResolved
  /\ Len(datasets) = 1
  /\ datasets[1].pathParts.defined
  /\ datasets[1].pathParts.parts # <<>>
  /\ \E i \in 1..Len(last.s3[1].resp.value) :
       last.s3[1].resp.value[i] = BaseNameFor(datasets[1], "tree").value

NoUnderscore(part) == \A j \in 1..Len(part) : part[j] # "_"

=============================================================================
